---- MODULE Spec2Model ----
(***************************************************************************)
(* Model of the menu-driven push / fetch actions and of the editor-backed  *)
(* commit orchestrator of vscode-magit.                                     *)
(*                                                                         *)
(*   src/src/commands/pushingCommands.ts   (push menu and actions,         *)
(*                                          commit menu, runCommitLike-    *)
(*                                          Command)                       *)
(*   src/src/commands/fetchingCommands.ts  (fetch menu and actions)        *)
(*                                                                         *)
(* Every async function is a sequence of steps cut at its awaits; the      *)
(* position of the running function is pc.  Values are JavaScript values:  *)
(* strings are strings, undefined is Undefined, an optional object is a    *)
(* sequence of length 0 (absent) or 1 (present).                           *)
(***************************************************************************)
EXTENDS Naturals, Sequences, FiniteSets

(***************************************************************************)
(* JavaScript values                                                       *)
(***************************************************************************)

\* undefined (a marker no git name can equal)
Undefined == "<undefined>"

\* truthiness of a string-or-undefined value
Truthy(x) == x # Undefined /\ x # ""

\* `${x}` and 'a' + x : undefined renders as the text "undefined"
Tpl(x) == IF x = Undefined THEN "undefined" ELSE x

\* an optional object
Absent == << >>
Some(x) == << x >>
IsSome(o) == Len(o) > 0
Get(o) == o[1]

(***************************************************************************)
(* RefType of the git typings: Head, RemoteHead, Tag                       *)
(***************************************************************************)
RefTypeHead == 0
RefTypeRemoteHead == 1
RefTypeTag == 2

(***************************************************************************)
(* Bounds of the model                                                     *)
(***************************************************************************)

\* longest ref list of repository.state.refs explored
MaxRefs == 2

\* most editors showing the staged-changes document at once
MaxVisible == 2

\* the universe of names
RemoteNames == {"origin", "fork"}
BranchNames == {"main", "dev"}

(***************************************************************************)
(* Collaborators that live outside src/                                    *)
(***************************************************************************)

\* MenuUtil.switchesToArgs: one token per activated switch, its long name,
\* in declaration order
switchesToArgs(sw) ==
  LET on == SelectSeq(sw, LAMBDA s : s.activated)
  IN  [i \in 1..Len(on) |-> on[i].longName]

\* GitTextUtils.remoteBranchFullNameToSegments: split at the first '/'
remoteBranchFullNameToSegments(full) ==
  IF \E r \in RemoteNames \cup BranchNames, n \in BranchNames \cup {"undefined"} :
       full = r \o "/" \o n
  THEN LET p == CHOOSE p \in (RemoteNames \cup BranchNames) \X (BranchNames \cup {"undefined"}) :
                  full = p[1] \o "/" \o p[2]
       IN  [remote |-> p[1], name |-> p[2]]
  ELSE [remote |-> full, name |-> ""]

\* GitTextUtils.shortHash: the abbreviated commit id
shortHash(c) == IF c = "0a1b2c3d4e5f" THEN "0a1b2c3" ELSE Undefined

(***************************************************************************)
(* State                                                                   *)
(***************************************************************************)
VARIABLES
  remotes,      \* repository.state.remotes, the names in source order
  refs,         \* repository.state.refs
  HEAD,         \* repository.magitState.HEAD
  config,       \* the configuration store: a set of <<key, value>>
  pendingCfg,   \* setConfig calls in flight that the action awaits
  orphanCfg,    \* setConfig calls in flight whose Promise.all has rejected
  pc,           \* position of the menu session
  act,          \* the action the menu dispatched
  menu,         \* the menu being shown: [title, commands]
  switches,     \* MenuState.switches
  shown,        \* the items handed to the chooser
  chooser,      \* the chooser: none, open, picked, dismissed, rejected
  chosen,       \* the chooser's result
  local,        \* a local computed before an await (remote)
  trace,        \* what the running action has done, in order
  result,       \* how the action ended: none, returned, raised
  \* ---- runCommitLikeCommand ----
  cpc,          \* position of each invocation
  opts,         \* the options object each caller passed
  stagedTask,   \* stagedEditorTask: none, pending, opened, rejected
  procTask,     \* commitSuccessMessageTask: none, pending, ok, failed
  instruction,  \* instructionStatus: none, shown, disposed
  messages,     \* outcome status messages shown by each invocation
  toClose,      \* matching visible editors the cleanup loop still visits
  closes,       \* close commands each invocation has executed
  refreshes,    \* magitStatusAndUpdate calls of each invocation
  rethrow,      \* the catch block re-raises once the finally block is done
  cresult,      \* how each invocation ended: none, returned, raised
  visible,      \* visible editors showing the staged-changes document
  hidden,       \* open editors of that document that are not visible
  procEnv,      \* name of the environment variable given to the process
  refreshTask,  \* the promise of magitStatusAndUpdate: none, pending, ok, failed
  steps         \* what each invocation has done, in order

pushVars == << remotes, refs, HEAD, config, pendingCfg, orphanCfg, pc, act, menu,
               switches, shown, chooser, chosen, local, trace, result >>
commitVars == << cpc, opts, stagedTask, procTask, instruction, messages, toClose,
                 closes, refreshes, rethrow, cresult, visible, hidden, procEnv,
                 refreshTask, steps >>
vars == << pushVars, commitVars >>

(***************************************************************************)
(* Menus                                                                   *)
(***************************************************************************)

Item(l, d, a) == [label |-> l, description |-> d, action |-> a]

\* pushing(): the switches declared for the push menu
pushSwitches ==
  << [shortName |-> "-f", longName |-> "--force-with-lease", activated |-> FALSE],
     [shortName |-> "-F", longName |-> "--force", activated |-> FALSE],
     [shortName |-> "-h", longName |-> "--no-verify", activated |-> FALSE],
     [shortName |-> "-d", longName |-> "--dry-run", activated |-> FALSE] >>

\* fetching(): the switches declared for the fetch menu
fetchSwitches ==
  << [shortName |-> "-p", longName |-> "--prune", activated |-> FALSE] >>

\* generatePushingMenu(), lines 11-33
generatePushingMenu(H) ==
  LET p == IF IsSome(H.pushRemote)
           THEN Item("p", Get(H.pushRemote).remote \o "/" \o Get(H.pushRemote).name,
                     "pushToPushRemote")
           ELSE Item("p", "pushRemote, after setting that", "pushSetPushRemote")
      u == IF IsSome(H.upstream)
           THEN Item("u", Get(H.upstream).remote \o "/" \o Get(H.upstream).name,
                     "pushUpstream")
           ELSE Item("u", "@{upstream}, after setting that", "pushSetUpstream")
  IN  [title |-> "Pushing",
       commands |-> << p, u,
                       Item("e", "elsewhere", "pushElsewhere"),
                       Item("T", "a tag", "pushTag"),
                       Item("t", "all tags", "pushAllTags") >>]

\* a slip in line 17: the field the action reads is tested, not upstream
fetchingMenuByUpstreamRemote(H) ==
  LET p == IF IsSome(H.pushRemote)
           THEN << Item("p", Get(H.pushRemote).remote, "fetchFromPushRemote") >>
           ELSE << >>
      u == IF IsSome(H.upstreamRemote)
           THEN << Item("u", Get(H.upstreamRemote).remote, "fetchFromUpstream") >>
           ELSE << >>
  IN  [title |-> "Fetching",
       commands |-> p \o u \o
                    << Item("e", "elsewhere", "fetchFromElsewhere"),
                       Item("a", "all remotes", "fetchAll"),
                       Item("o", "another branch", "fetchAnotherBranch") >>]

\* fetching(), fetchingCommands.ts lines 10-32
fetchingMenu(H) ==
  LET p == IF IsSome(H.pushRemote)
           THEN << Item("p", Get(H.pushRemote).remote, "fetchFromPushRemote") >>
           ELSE << >>
      u == IF IsSome(H.upstream)
           THEN << Item("u", Get(H.upstream).remote, "fetchFromUpstream") >>
           ELSE << >>
  IN  [title |-> "Fetching",
       commands |-> p \o u \o
                    << Item("e", "elsewhere", "fetchFromElsewhere"),
                       Item("a", "all remotes", "fetchAll"),
                       Item("o", "another branch", "fetchAnotherBranch") >>]

NoMenu == [title |-> "", commands |-> << >>]

(***************************************************************************)
(* The upstream candidates of pushSetUpstream                              *)
(***************************************************************************)

\* the name pushSetUpstream expects the tracking ref to have
expectedUpstreamName(rs, headName) == rs[1] \o "/" \o Tpl(headName)

\* a slip in lines 92-96: the synthesized candidate pushed behind the refs
upstreamChoicesAppended(rfs, rs, headName) ==
  IF Len(rs) > 0
     /\ ~ \E i \in 1..Len(rfs) : rfs[i].name = expectedUpstreamName(rs, headName)
  THEN rfs \o << [name |-> expectedUpstreamName(rs, headName), remote |-> rs[1],
                  type |-> RefTypeRemoteHead, commit |-> Undefined] >>
  ELSE rfs

\* lines 88-97: the ref set, with the synthesized candidate in front when no
\* ref has the expected name
upstreamChoices(rfs, rs, headName) ==
  IF Len(rs) > 0
     /\ ~ \E i \in 1..Len(rfs) : rfs[i].name = expectedUpstreamName(rs, headName)
  THEN << [name |-> expectedUpstreamName(rs, headName), remote |-> rs[1],
           type |-> RefTypeRemoteHead, commit |-> Undefined] >> \o rfs
  ELSE rfs

\* a slip in line 100: the current branch is not filtered out
keepChoiceTagsOnly(ref, headName) == ref.type # RefTypeTag

\* line 100: the filter
keepChoice(ref, headName) == ref.type # RefTypeTag /\ ref.name # headName

\* line 101: Array.prototype.sort with (refA, refB) => refB.type - refA.type,
\* a stable sort: insertion behind every element that does not sort after it
RECURSIVE sortByTypeDesc(_)
insertByTypeDesc(sorted, r) ==
  LET before == {i \in 1..Len(sorted) : sorted[i].type >= r.type}
      k == IF before = {} THEN 0 ELSE CHOOSE i \in before : \A j \in before : j <= i
  IN  SubSeq(sorted, 1, k) \o << r >> \o SubSeq(sorted, k + 1, Len(sorted))
sortByTypeDesc(s) ==
  IF s = << >> THEN << >>
  ELSE insertByTypeDesc(sortByTypeDesc(SubSeq(s, 1, Len(s) - 1)), s[Len(s)])

\* lines 99-101: the candidates kept, in the order shown
upstreamCandidates(rfs, rs, headName) ==
  sortByTypeDesc(SelectSeq(upstreamChoices(rfs, rs, headName),
                           LAMBDA r : keepChoice(r, headName)))

\* lines 99-102: the QuickItems shown to the user
upstreamQuickItems(rfs, rs, headName) ==
  LET sorted == upstreamCandidates(rfs, rs, headName)
  IN  [i \in 1..Len(sorted) |->
         [label |-> sorted[i].name, description |-> shortHash(sorted[i].commit),
          meta |-> sorted[i].name]]

\* lines 60-61 and fetchingCommands.ts 52-53: the remotes as QuickItems
remoteQuickItems(rs) ==
  [i \in 1..Len(rs) |-> [label |-> rs[i], description |-> "url:" \o rs[i], meta |-> rs[i]]]

\* MagitUtils.chooseTag offers the tags of the ref set
tagQuickItems(rfs) ==
  LET tags == SelectSeq(rfs, LAMBDA r : r.type = RefTypeTag)
  IN  [i \in 1..Len(tags) |->
         [label |-> tags[i].name, description |-> shortHash(tags[i].commit),
          meta |-> tags[i].name]]

\* what a chooser can resolve to: one of the metas shown, or undefined
Choices(items) == {items[i].meta : i \in 1..Len(items)} \cup {Undefined}

(***************************************************************************)
(* The configuration store and the trace of an action                      *)
(***************************************************************************)

Ev(o, a) == [op |-> o, args |-> a]

\* repository.setConfig(key, value) once it has completed
setConfig(cfg, key, value) == {p \in cfg : p[1] # key} \cup {<< key, value >>}

pushRemoteKey(ref) == "branch." \o ref \o ".pushRemote"
mergeKey(ref) == "branch." \o ref \o ".merge"
remoteKey(ref) == "branch." \o ref \o ".remote"

\* a slip in lines 134 and 146: the operands of ?? exchanged
tagRemotePushRemoteFirst(H) ==
  IF IsSome(H.pushRemote) THEN Get(H.pushRemote).remote
  ELSE IF IsSome(H.upstreamRemote) THEN Get(H.upstreamRemote).remote ELSE Undefined

\* lines 134 and 146: upstreamRemote?.remote ?? pushRemote?.remote
tagRemote(H) ==
  IF IsSome(H.upstreamRemote) /\ Get(H.upstreamRemote).remote # Undefined
  THEN Get(H.upstreamRemote).remote
  ELSE IF IsSome(H.pushRemote) THEN Get(H.pushRemote).remote ELSE Undefined


(***************************************************************************)
(* Argument vectors                                                        *)
(***************************************************************************)

\* line 54
pushToPushRemoteArgs(H, sw) ==
  << "push" >> \o switchesToArgs(sw) \o << Get(H.pushRemote).remote, H.name >>

\* line 81
pushUpstreamArgs(H, sw) ==
  << "push" >> \o switchesToArgs(sw) \o << Get(H.upstreamRemote).remote, H.name >>

\* line 140
pushTagArgs(sw, remote, tag) == << "push" >> \o switchesToArgs(sw) \o << remote, tag >>

\* line 150
pushAllTagsArgs(sw, remote) == << "push" >> \o switchesToArgs(sw) \o << remote, "--tags" >>

\* fetchingCommands.ts lines 37, 45, 58
fetchArgs(sw, remote) == << "fetch" >> \o switchesToArgs(sw) \o << remote >>

\* fetchingCommands.ts line 64
fetchAllArgs(sw) == << "fetch" >> \o switchesToArgs(sw) \o << "--all" >>

\* fetchingCommands.ts line 73
fetchBranchArgs(sw, remote, branch) ==
  << "fetch" >> \o switchesToArgs(sw) \o << remote, "refs/heads/" \o branch >>

(***************************************************************************)
(* Steps shared by the actions                                             *)
(***************************************************************************)

\* gitRun(repository, args): the process is started and awaited
GitRun(args) ==
  /\ trace' = Append(trace, Ev("gitRun", args))
  /\ pc' = "gitRun"
  /\ result' = result

\* the function returns without doing anything more
Return ==
  /\ pc' = "done"
  /\ result' = "returned"
  /\ trace' = trace

\* an awaited collaborator rejected and nothing catches it
Raise ==
  /\ pc' = "done"
  /\ result' = "raised"
  /\ trace' = trace

\* the process settles: gitRun resolves, or fails on a non-zero exit
GitSettles ==
  /\ pc = "gitRun"
  /\ \E ok \in BOOLEAN :
       result' = IF ok THEN "returned" ELSE "raised"
  /\ pc' = "done"
  /\ UNCHANGED << remotes, refs, HEAD, config, pendingCfg, orphanCfg, act, menu,
                  switches, shown, chosen, local, trace >>
  /\ UNCHANGED chooser
  /\ UNCHANGED commitVars

\* where an action continues once its setConfig calls have all completed
afterSetConfig(a) ==
  IF a = "pushSetPushRemote" THEN "pushSetPushRemote_cont" ELSE "pushSetUpstream_cont"

\* a slip in lines 68 and 117: the rejection is swallowed and the action goes on
afterFailedSetConfigContinues(a) == afterSetConfig(a)

\* lines 68 and 117: a rejected setConfig leaves the action at the await; the
\* statements behind it are not run
afterFailedSetConfig(a) == "done"

\* one awaited setConfig call settles (lines 68 and 117-120)
SetConfigSettles ==
  /\ pc = "setConfig"
  /\ \E w \in pendingCfg, ok \in BOOLEAN :
       IF ok
       THEN /\ config' = setConfig(config, w[1], w[2])
            /\ pendingCfg' = pendingCfg \ {w}
            /\ orphanCfg' = orphanCfg
            /\ trace' = Append(trace, Ev("setConfig", w))
            /\ pc' = IF pendingCfg' = {} THEN afterSetConfig(act) ELSE pc
            /\ result' = result
       ELSE /\ config' = config
            /\ pendingCfg' = {}
            /\ orphanCfg' = orphanCfg \cup (pendingCfg \ {w})
            /\ trace' = Append(trace, Ev("setConfigFailed", w))
            /\ pc' = afterFailedSetConfig(act)
            /\ result' = "raised"
  /\ UNCHANGED << remotes, refs, HEAD, act, menu, switches, shown, chosen, local >>
  /\ UNCHANGED chooser
  /\ UNCHANGED commitVars

\* a setConfig call nobody awaits any more settles
OrphanSetConfigSettles ==
  /\ \E w \in orphanCfg, ok \in BOOLEAN :
       /\ orphanCfg' = orphanCfg \ {w}
       /\ config' = IF ok THEN setConfig(config, w[1], w[2]) ELSE config
  /\ UNCHANGED << remotes, refs, HEAD, pendingCfg, pc, act, menu, switches, shown,
                  chosen, local, trace, result >>
  /\ UNCHANGED chooser
  /\ UNCHANGED commitVars

(***************************************************************************)
(* The menu engine (MenuUtil.showMenu)                                     *)
(***************************************************************************)

\* pushing(repository), lines 35-45
Pushing ==
  /\ pc = "idle"
  /\ menu' = generatePushingMenu(HEAD)
  /\ switches' = pushSwitches
  /\ pc' = "menu"
  /\ UNCHANGED << remotes, refs, HEAD, config, pendingCfg, orphanCfg, act, shown,
                  chosen, local, trace, result >>
  /\ UNCHANGED chooser
  /\ UNCHANGED commitVars

\* fetching(repository), fetchingCommands.ts lines 8-33
Fetching ==
  /\ pc = "idle"
  /\ menu' = fetchingMenu(HEAD)
  /\ switches' = fetchSwitches
  /\ pc' = "menu"
  /\ UNCHANGED << remotes, refs, HEAD, config, pendingCfg, orphanCfg, act, shown,
                  chosen, local, trace, result >>
  /\ UNCHANGED chooser
  /\ UNCHANGED commitVars

\* the user toggles a switch of the menu shown
ToggleSwitch ==
  /\ pc = "menu"
  /\ \E i \in 1..Len(switches) :
       switches' = [switches EXCEPT ![i].activated = ~ @]
  /\ UNCHANGED << remotes, refs, HEAD, config, pendingCfg, orphanCfg, pc, act, menu,
                  shown, chosen, local, trace, result >>
  /\ UNCHANGED chooser
  /\ UNCHANGED commitVars

\* the user dismisses the menu: no action is invoked
MenuDismiss ==
  /\ pc = "menu"
  /\ Return
  /\ UNCHANGED << remotes, refs, HEAD, config, pendingCfg, orphanCfg, act, menu,
                  switches, shown, chosen, local >>
  /\ UNCHANGED chooser
  /\ UNCHANGED commitVars

\* the user presses the label of a command: its action is invoked
MenuSelect ==
  /\ pc = "menu"
  /\ \E i \in 1..Len(menu.commands) :
       /\ act' = menu.commands[i].action
       /\ pc' = menu.commands[i].action
  /\ UNCHANGED << remotes, refs, HEAD, config, pendingCfg, orphanCfg, menu,
                  switches, shown, chosen, local, trace, result >>
  /\ UNCHANGED chooser
  /\ UNCHANGED commitVars

\* the action has ended and the session is over
Finish ==
  /\ pc = "done"
  /\ pc' = "idle"
  /\ act' = ""
  /\ menu' = NoMenu
  /\ switches' = << >>
  /\ shown' = << >>
  /\ chooser' = "none"
  /\ chosen' = Undefined
  /\ local' = Undefined
  /\ trace' = << >>
  /\ result' = "none"
  /\ UNCHANGED << remotes, refs, HEAD, config, pendingCfg, orphanCfg >>
  /\ UNCHANGED commitVars


(***************************************************************************)
(* Push actions                                                            *)
(***************************************************************************)

\* what the user can type into an input box: text, nothing, or dismissal
InputTexts(texts) == texts \cup {"", Undefined}

\* lines 47-57
pushToPushRemote ==
  /\ pc = "pushToPushRemote"
  /\ IF IsSome(HEAD.pushRemote) /\ Truthy(Get(HEAD.pushRemote).remote) /\ Truthy(HEAD.name)
     THEN GitRun(pushToPushRemoteArgs(HEAD, switches))
     ELSE Return
  /\ UNCHANGED << remotes, refs, HEAD, config, pendingCfg, orphanCfg, act, menu,
                  switches, shown, chosen, local >>
  /\ UNCHANGED chooser
  /\ UNCHANGED commitVars

\* a slip in lines 67 and 111: the chooser's result is not tested
onlyBranch(c, ref) == Truthy(ref)

\* lines 67 and 111: chosenRemote && ref
choiceAndBranch(c, ref) == Truthy(c) /\ Truthy(ref)

\* lines 60-63: the remotes are offered in a chooser
pushSetPushRemote ==
  /\ pc = "pushSetPushRemote"
  /\ chooser' = "open"
  /\ shown' = remoteQuickItems(remotes)
  /\ pc' = "pushSetPushRemote_showMenu"
  /\ UNCHANGED << remotes, refs, HEAD, config, pendingCfg, orphanCfg, act, menu,
                  switches, chosen, local, trace, result >>
  /\ UNCHANGED commitVars

\* lines 63-68: the chooser resolves; with a remote and a branch the
\* configuration write is started
pushSetPushRemoteChosen ==
  /\ pc = "pushSetPushRemote_showMenu"
  /\ \E c \in Choices(shown) :
       /\ chosen' = c
       /\ chooser' = IF c = Undefined THEN "dismissed" ELSE "picked"
       /\ IF choiceAndBranch(c, HEAD.name)
          THEN /\ pendingCfg' = {<< pushRemoteKey(HEAD.name), c >>}
               /\ pc' = "setConfig"
               /\ UNCHANGED << trace, result >>
          ELSE /\ pendingCfg' = pendingCfg
               /\ Return
  /\ UNCHANGED << remotes, refs, HEAD, config, orphanCfg, act, menu, switches,
                  shown, local >>
  /\ UNCHANGED commitVars

\* line 63: the chooser rejects; nothing catches it
pushSetPushRemoteChooserFails ==
  /\ pc = "pushSetPushRemote_showMenu"
  /\ chooser' = "rejected"
  /\ Raise
  /\ UNCHANGED << remotes, refs, HEAD, config, pendingCfg, orphanCfg, act, menu,
                  switches, shown, chosen, local >>
  /\ UNCHANGED commitVars

\* a slip in line 69: the two fields exchanged
newPushRemoteExchanged(ref, remote) == Some([name |-> remote, remote |-> ref])

\* the in-memory pushRemote line 69 assigns
newPushRemote(ref, remote) == Some([name |-> ref, remote |-> remote])

\* lines 69-70: the write has completed; HEAD is updated and the push retried
pushSetPushRemoteCont ==
  /\ pc = "pushSetPushRemote_cont"
  /\ HEAD' = [HEAD EXCEPT !.pushRemote = newPushRemote(HEAD.name, chosen)]
  /\ trace' = Append(trace, Ev("setHEAD", << "pushRemote", HEAD.name, chosen >>))
  /\ pc' = "pushToPushRemote"
  /\ UNCHANGED << remotes, refs, config, pendingCfg, orphanCfg, act, menu, switches,
                  shown, chosen, local, result >>
  /\ UNCHANGED chooser
  /\ UNCHANGED commitVars

\* lines 74-84
pushUpstream ==
  /\ pc = "pushUpstream"
  /\ IF IsSome(HEAD.upstreamRemote) /\ Truthy(Get(HEAD.upstreamRemote).remote)
        /\ Truthy(HEAD.name)
     THEN GitRun(pushUpstreamArgs(HEAD, switches))
     ELSE Return
  /\ UNCHANGED << remotes, refs, HEAD, config, pendingCfg, orphanCfg, act, menu,
                  switches, shown, chosen, local >>
  /\ UNCHANGED chooser
  /\ UNCHANGED commitVars

\* lines 88-106: the candidates are offered in a chooser
pushSetUpstream ==
  /\ pc = "pushSetUpstream"
  /\ chooser' = "open"
  /\ shown' = upstreamQuickItems(refs, remotes, HEAD.name)
  /\ pc' = "pushSetUpstream_showMenu"
  /\ UNCHANGED << remotes, refs, HEAD, config, pendingCfg, orphanCfg, act, menu,
                  switches, chosen, local, trace, result >>
  /\ UNCHANGED commitVars

\* lines 109-120 for a chooser result c
pushSetUpstreamWith(c) ==
  /\ chosen' = c
  /\ IF choiceAndBranch(c, HEAD.name)
     THEN LET seg == remoteBranchFullNameToSegments(c)
          IN  IF Truthy(seg.remote) /\ Truthy(seg.name)
              THEN /\ pendingCfg' = {<< mergeKey(HEAD.name), "refs/heads/" \o seg.name >>,
                                     << remoteKey(HEAD.name), seg.remote >>}
                   /\ pc' = "setConfig"
                   /\ UNCHANGED << trace, result >>
              ELSE /\ pendingCfg' = pendingCfg
                   /\ Return
     ELSE /\ pendingCfg' = pendingCfg
          /\ Return

\* lines 104-120: the chooser resolves
pushSetUpstreamChosen ==
  /\ pc = "pushSetUpstream_showMenu"
  /\ \E c \in Choices(shown) :
       /\ chooser' = IF c = Undefined THEN "dismissed" ELSE "picked"
       /\ pushSetUpstreamWith(c)
  /\ UNCHANGED << remotes, refs, HEAD, config, orphanCfg, act, menu, switches,
                  shown, local >>
  /\ UNCHANGED commitVars

\* lines 105-107: the chooser rejects and the catch leaves chosenRemote undefined
pushSetUpstreamChooserFails ==
  /\ pc = "pushSetUpstream_showMenu"
  /\ chooser' = "rejected"
  /\ pushSetUpstreamWith(Undefined)
  /\ UNCHANGED << remotes, refs, HEAD, config, orphanCfg, act, menu, switches,
                  shown, local >>
  /\ UNCHANGED commitVars

\* the in-memory upstreamRemote line 122 assigns
newUpstreamRemote(full) ==
  LET seg == remoteBranchFullNameToSegments(full)
  IN  Some([name |-> seg.name, remote |-> seg.remote])

\* lines 122-124: both writes have completed; HEAD is updated and the push retried
pushSetUpstreamCont ==
  /\ pc = "pushSetUpstream_cont"
  /\ HEAD' = [HEAD EXCEPT !.upstreamRemote = newUpstreamRemote(chosen)]
  /\ trace' = Append(trace, Ev("setHEAD", << "upstreamRemote", chosen >>))
  /\ pc' = "pushUpstream"
  /\ UNCHANGED << remotes, refs, config, pendingCfg, orphanCfg, act, menu, switches,
                  shown, chosen, local, result >>
  /\ UNCHANGED chooser
  /\ UNCHANGED commitVars

\* lines 129-131
pushElsewhere ==
  /\ pc = "pushElsewhere"
  /\ trace' = Append(trace, Ev("executeCommand", << "git.pushTo" >>))
  /\ pc' = "done"
  /\ result' = "returned"
  /\ UNCHANGED << remotes, refs, HEAD, config, pendingCfg, orphanCfg, act, menu,
                  switches, shown, chosen, local >>
  /\ UNCHANGED chooser
  /\ UNCHANGED commitVars

\* lines 134-136: the remote is resolved, then the tags are offered
pushTag ==
  /\ pc = "pushTag"
  /\ chooser' = "open"
  /\ local' = tagRemote(HEAD)
  /\ shown' = tagQuickItems(refs)
  /\ pc' = "pushTag_chooseTag"
  /\ UNCHANGED << remotes, refs, HEAD, config, pendingCfg, orphanCfg, act, menu,
                  switches, chosen, trace, result >>
  /\ UNCHANGED commitVars

\* lines 136-142: the tag chooser resolves
pushTagChosen ==
  /\ pc = "pushTag_chooseTag"
  /\ \E t \in Choices(shown) :
       /\ chosen' = t
       /\ chooser' = IF t = Undefined THEN "dismissed" ELSE "picked"
       /\ IF Truthy(local) /\ Truthy(t)
          THEN GitRun(pushTagArgs(switches, local, t))
          ELSE Return
  /\ UNCHANGED << remotes, refs, HEAD, config, pendingCfg, orphanCfg, act, menu,
                  switches, shown, local >>
  /\ UNCHANGED commitVars

\* lines 145-153
pushAllTags ==
  /\ pc = "pushAllTags"
  /\ IF Truthy(tagRemote(HEAD))
     THEN GitRun(pushAllTagsArgs(switches, tagRemote(HEAD)))
     ELSE Return
  /\ UNCHANGED << remotes, refs, HEAD, config, pendingCfg, orphanCfg, act, menu,
                  switches, shown, chosen, local >>
  /\ UNCHANGED chooser
  /\ UNCHANGED commitVars

(***************************************************************************)
(* Fetch actions (fetchingCommands.ts)                                     *)
(***************************************************************************)

\* lines 35-40
fetchFromPushRemote ==
  /\ pc = "fetchFromPushRemote"
  /\ IF IsSome(HEAD.pushRemote)
     THEN GitRun(fetchArgs(switches, Get(HEAD.pushRemote).remote))
     ELSE Return
  /\ UNCHANGED << remotes, refs, HEAD, config, pendingCfg, orphanCfg, act, menu,
                  switches, shown, chosen, local >>
  /\ UNCHANGED chooser
  /\ UNCHANGED commitVars

\* lines 42-48
fetchFromUpstream ==
  /\ pc = "fetchFromUpstream"
  /\ IF IsSome(HEAD.upstreamRemote)
     THEN GitRun(fetchArgs(switches, Get(HEAD.upstreamRemote).remote))
     ELSE Return
  /\ UNCHANGED << remotes, refs, HEAD, config, pendingCfg, orphanCfg, act, menu,
                  switches, shown, chosen, local >>
  /\ UNCHANGED chooser
  /\ UNCHANGED commitVars

\* lines 52-55: the remotes are offered in a chooser
fetchFromElsewhere ==
  /\ pc = "fetchFromElsewhere"
  /\ chooser' = "open"
  /\ shown' = remoteQuickItems(remotes)
  /\ pc' = "fetchFromElsewhere_showMenu"
  /\ UNCHANGED << remotes, refs, HEAD, config, pendingCfg, orphanCfg, act, menu,
                  switches, chosen, local, trace, result >>
  /\ UNCHANGED commitVars

\* lines 55-60: the chooser resolves
fetchFromElsewhereChosen ==
  /\ pc = "fetchFromElsewhere_showMenu"
  /\ \E c \in Choices(shown) :
       /\ chosen' = c
       /\ chooser' = IF c = Undefined THEN "dismissed" ELSE "picked"
       /\ IF Truthy(c) THEN GitRun(fetchArgs(switches, c)) ELSE Return
  /\ UNCHANGED << remotes, refs, HEAD, config, pendingCfg, orphanCfg, act, menu,
                  switches, shown, local >>
  /\ UNCHANGED commitVars

\* line 55: the chooser rejects; nothing catches it
fetchFromElsewhereChooserFails ==
  /\ pc = "fetchFromElsewhere_showMenu"
  /\ chooser' = "rejected"
  /\ Raise
  /\ UNCHANGED << remotes, refs, HEAD, config, pendingCfg, orphanCfg, act, menu,
                  switches, shown, chosen, local >>
  /\ UNCHANGED commitVars

\* lines 63-66
fetchAll ==
  /\ pc = "fetchAll"
  /\ GitRun(fetchAllArgs(switches))
  /\ UNCHANGED << remotes, refs, HEAD, config, pendingCfg, orphanCfg, act, menu,
                  switches, shown, chosen, local >>
  /\ UNCHANGED chooser
  /\ UNCHANGED commitVars

\* lines 68-70: the first input box resolves
fetchAnotherBranch ==
  /\ pc = "fetchAnotherBranch"
  /\ \E r \in InputTexts(RemoteNames) :
       /\ local' = r
       /\ IF Truthy(r)
          THEN pc' = "fetchAnotherBranch_branch" /\ UNCHANGED << trace, result >>
          ELSE Return
  /\ UNCHANGED << remotes, refs, HEAD, config, pendingCfg, orphanCfg, act, menu,
                  switches, shown, chosen >>
  /\ UNCHANGED chooser
  /\ UNCHANGED commitVars

\* lines 71-75: the second input box resolves
fetchAnotherBranchBranch ==
  /\ pc = "fetchAnotherBranch_branch"
  /\ \E b \in InputTexts(BranchNames) :
       /\ chosen' = b
       /\ IF Truthy(b) THEN GitRun(fetchBranchArgs(switches, local, b)) ELSE Return
  /\ UNCHANGED << remotes, refs, HEAD, config, pendingCfg, orphanCfg, act, menu,
                  switches, shown, local >>
  /\ UNCHANGED chooser
  /\ UNCHANGED commitVars


(***************************************************************************)
(* runCommitLikeCommand (lines 204-268)                                    *)
(***************************************************************************)

\* the invocations of runCommitLikeCommand that may be in progress
Invocations == {1, 2}

\* a caller that passes no options object
NoOptions ==
  [passed |-> FALSE, showStagedChanges |-> "unset", updatePostCommitTask |-> "unset",
   editor |-> Undefined, propagateErrors |-> "unset"]

\* the options objects callers pass (CommitEditorOptions, lines 204-209):
\* every field is optional
CallerOptions ==
  {NoOptions} \cup
  [passed : {TRUE}, showStagedChanges : {"unset", "true", "false"},
   updatePostCommitTask : {"unset", "true"}, editor : {Undefined, "GIT_SEQUENCE_EDITOR"},
   propagateErrors : {"unset", "true"}]

\* line 211: the parameter's default value replaces a missing options object,
\* and only a missing one
destructure(o) ==
  IF o.passed THEN o ELSE [NoOptions EXCEPT !.showStagedChanges = "true"]

\* truthiness of an optional boolean
Enabled(v) == v = "true"

\* line 231: editor ?? 'GIT_EDITOR'
editorVariable(o) == IF o.editor = Undefined THEN "GIT_EDITOR" ELSE o.editor

\* line 219: whether the staged-changes preview is opened
opensPreview(o) == Enabled(destructure(o).showStagedChanges)

\* line 250: whether the catch block re-raises
rethrows(o) == Enabled(destructure(o).propagateErrors)

\* a slip in lines 217-233: the tasks are started before the instruction is shown
startStepsTasksFirst(o) ==
  (IF opensPreview(o) THEN << "preview" >> ELSE << >>) \o << "process", "instruction" >>

\* lines 217-233: what the call does before its first await, in order: the
\* instruction is shown, the preview-open task and the process task are started
startSteps(o) ==
  << "instruction" >> \o (IF opensPreview(o) THEN << "preview" >> ELSE << >>) \o << "process" >>

\* lines 211-236 for a caller's options object o
runCommitLikeCommandWith(i, o) ==
  /\ opts' = [opts EXCEPT ![i] = o]
  /\ instruction' = [instruction EXCEPT ![i] = "shown"]
  /\ stagedTask' = [stagedTask EXCEPT ![i] = IF opensPreview(o) THEN "pending" ELSE "none"]
  /\ procTask' = [procTask EXCEPT ![i] = "pending"]
  /\ procEnv' = [procEnv EXCEPT ![i] = editorVariable(destructure(o))]
  /\ steps' = [steps EXCEPT ![i] = startSteps(o)]
  /\ cpc' = [cpc EXCEPT ![i] = IF Enabled(destructure(o).updatePostCommitTask)
                                THEN "delay" ELSE "awaitProcess"]
  /\ UNCHANGED << messages, toClose, closes, refreshes, rethrow, cresult, visible, hidden,
                  refreshTask >>

\* lines 211-236: everything up to the first await
RunCommitLikeCommand(i) ==
  /\ cpc[i] = "idle"
  /\ \E o \in CallerOptions : runCommitLikeCommandWith(i, o)
  /\ UNCHANGED pushVars

\* lines 236-237: the delay has passed; the refresh is triggered, not awaited
PostCommitRefresh(i) ==
  /\ cpc[i] = "delay"
  /\ refreshes' = [refreshes EXCEPT ![i] = @ + 1]
  /\ refreshTask' = [refreshTask EXCEPT ![i] = "pending"]
  /\ steps' = [steps EXCEPT ![i] = Append(@, "refresh")]
  /\ cpc' = [cpc EXCEPT ![i] = "awaitProcess"]
  /\ UNCHANGED << opts, stagedTask, procTask, instruction, messages, toClose, closes,
                  rethrow, cresult, visible, hidden, procEnv >>
  /\ UNCHANGED pushVars

\* the promise of magitStatusAndUpdate settles; nothing awaits it
RefreshSettles(i) ==
  /\ refreshTask[i] = "pending"
  /\ \E ok \in BOOLEAN :
       refreshTask' = [refreshTask EXCEPT ![i] = IF ok THEN "ok" ELSE "failed"]
  /\ UNCHANGED << cpc, opts, stagedTask, procTask, instruction, messages, toClose, closes,
                  refreshes, rethrow, cresult, visible, hidden, procEnv, steps >>
  /\ UNCHANGED pushVars

\* the process task settles: the commit is made, or git exits non-zero
ProcessSettles(i) ==
  /\ procTask[i] = "pending"
  /\ \E ok \in BOOLEAN : procTask' = [procTask EXCEPT ![i] = IF ok THEN "ok" ELSE "failed"]
  /\ UNCHANGED << cpc, opts, stagedTask, instruction, messages, toClose, closes,
                  refreshes, rethrow, cresult, visible, hidden, procEnv >>
  /\ UNCHANGED << refreshTask, steps >>
  /\ UNCHANGED pushVars

\* the preview-open task settles: the editor is shown, or showDiffSection rejects
PreviewSettles(i) ==
  /\ stagedTask[i] = "pending"
  /\ \E ok \in BOOLEAN :
       /\ stagedTask' = [stagedTask EXCEPT ![i] = IF ok THEN "opened" ELSE "rejected"]
       /\ visible' = IF ok THEN visible + 1 ELSE visible
  /\ UNCHANGED << cpc, opts, procTask, instruction, messages, toClose, closes,
                  refreshes, rethrow, cresult, hidden, procEnv >>
  /\ UNCHANGED << refreshTask, steps >>
  /\ UNCHANGED pushVars

\* a slip in lines 235-240: the refresh is awaited inside the try block
awaitedOutcomeWithRefresh(p, r) == IF r = "failed" THEN "failed" ELSE p

\* line 240: what the try block awaits is the process task p alone; the
\* refresh r was started without await
awaitedOutcome(p, r) == p

\* a slip in lines 243 and 249: the catch block's message on both paths
outcomeMessageCanceled(p) == "Commit canceled."

\* lines 243 and 249: the outcome status message
outcomeMessage(p) == IF p = "ok" THEN "Git finished" ELSE "Commit canceled."

\* lines 240-252: the await of the process task returns or throws
AwaitProcess(i) ==
  /\ cpc[i] = "awaitProcess"
  /\ LET out == awaitedOutcome(procTask[i], refreshTask[i])
     IN  /\ out \in {"ok", "failed"}
         /\ messages' = [messages EXCEPT ![i] = Append(@, outcomeMessage(out))]
         /\ rethrow' = [rethrow EXCEPT ![i] = out = "failed" /\ rethrows(opts[i])]
  /\ instruction' = [instruction EXCEPT ![i] = "disposed"]
  /\ steps' = [steps EXCEPT ![i] = @ \o << "dispose", "message" >>]
  /\ cpc' = [cpc EXCEPT ![i] = "finally"]
  /\ UNCHANGED << opts, stagedTask, procTask, toClose, closes, refreshes, cresult,
                  visible, hidden, procEnv, refreshTask >>
  /\ UNCHANGED pushVars

\* how the invocation ends once the finally block is through
ended(i) == IF rethrow[i] THEN "raised" ELSE "returned"

\* a slip in line 255: the preview-open task is not awaited
previewNotAwaited(t) == TRUE

\* line 255: await stagedEditorTask continues once the task t has settled
\* (at once when no task was started)
previewSettled(t) == t # "pending"

\* lines 255-257: the await of the preview-open task returns or throws, and the
\* loop over window.visibleTextEditors starts
Finally(i) ==
  /\ cpc[i] = "finally"
  /\ previewSettled(stagedTask[i])
  /\ IF stagedTask[i] = "rejected"
     THEN /\ cpc' = [cpc EXCEPT ![i] = "ended"]
          /\ cresult' = [cresult EXCEPT ![i] = "raised"]
          /\ toClose' = toClose
          /\ steps' = steps
     ELSE IF stagedTask[i] = "opened" /\ visible > 0
     THEN /\ cpc' = [cpc EXCEPT ![i] = "closing"]
          /\ toClose' = [toClose EXCEPT ![i] = visible]
          /\ cresult' = cresult
          /\ steps' = [steps EXCEPT ![i] = Append(@, "locate")]
     ELSE /\ cpc' = [cpc EXCEPT ![i] = "ended"]
          /\ cresult' = [cresult EXCEPT ![i] = ended(i)]
          /\ toClose' = toClose
          /\ steps' = [steps EXCEPT ![i] =
                         IF stagedTask[i] = "opened" THEN Append(@, "locate") ELSE @]
  /\ UNCHANGED << opts, stagedTask, procTask, instruction, messages, closes, refreshes,
                  rethrow, visible, hidden, procEnv, refreshTask >>
  /\ UNCHANGED pushVars

\* lines 258-263: one visible editor of the staged document is closed
CloseVisibleEditor(i) ==
  /\ cpc[i] = "closing"
  /\ closes' = [closes EXCEPT ![i] = @ + 1]
  /\ visible' = IF visible > 0 THEN visible - 1 ELSE visible
  /\ toClose' = [toClose EXCEPT ![i] = @ - 1]
  /\ steps' = [steps EXCEPT ![i] = Append(@, "close")]
  /\ IF toClose[i] = 1
     THEN /\ cpc' = [cpc EXCEPT ![i] = "ended"]
          /\ cresult' = [cresult EXCEPT ![i] = ended(i)]
     ELSE UNCHANGED << cpc, cresult >>
  /\ UNCHANGED << opts, stagedTask, procTask, instruction, messages, refreshes,
                  rethrow, hidden, procEnv, refreshTask >>
  /\ UNCHANGED pushVars

\* the user brings another tab to the front of the preview's editor group
UserHidesPreview ==
  /\ visible > 0
  /\ visible' = visible - 1
  /\ hidden' = hidden + 1
  /\ UNCHANGED << cpc, opts, stagedTask, procTask, instruction, messages, toClose,
                  closes, refreshes, rethrow, cresult, procEnv, refreshTask, steps >>
  /\ UNCHANGED pushVars

\* the user closes the preview's tab
UserClosesPreview ==
  /\ visible > 0
  /\ visible' = visible - 1
  /\ UNCHANGED << cpc, opts, stagedTask, procTask, instruction, messages, toClose,
                  closes, refreshes, rethrow, cresult, hidden, procEnv, refreshTask, steps >>
  /\ UNCHANGED pushVars

\* the user splits the preview's editor: one more editor shows the document
UserSplitsPreview ==
  /\ visible > 0
  /\ visible + hidden < MaxVisible
  /\ visible' = visible + 1
  /\ UNCHANGED << cpc, opts, stagedTask, procTask, instruction, messages, toClose,
                  closes, refreshes, rethrow, cresult, hidden, procEnv, refreshTask, steps >>
  /\ UNCHANGED pushVars


(***************************************************************************)
(* The commit menu and its actions (lines 164-202)                         *)
(***************************************************************************)

\* magitCommit(): the switches declared for the commit menu, lines 177-180
commitSwitches ==
  << [shortName |-> "-a", longName |-> "--all", activated |-> FALSE],
     [shortName |-> "-e", longName |-> "--allow-empty", activated |-> FALSE] >>

\* commitMenu, lines 164-173
commitMenu ==
  [title |-> "Committing",
   commands |-> << Item("c", "Commit", "commit"),
                   Item("a", "Amend", "commitAmend"),
                   Item("e", "Extend", "commitExtend"),
                   Item("w", "Reword", "commitReword"),
                   Item("f", "Fixup", "fixup") >>]

\* lines 167-170: the commitArgs each command of the menu passes to commit()
commitArgs(a) ==
  CASE a = "commitAmend" -> << "--amend" >>
    [] a = "commitExtend" -> << "--amend", "--no-edit" >>
    [] a = "commitReword" -> << "--amend", "--only" >>
    [] OTHER -> << >>

\* line 187
commitCommandArgs(sw, a) == << "commit" >> \o switchesToArgs(sw) \o commitArgs(a)

\* magitCommit(repository), lines 175-183
MagitCommit ==
  /\ pc = "idle"
  /\ menu' = commitMenu
  /\ switches' = commitSwitches
  /\ pc' = "menu"
  /\ UNCHANGED << remotes, refs, HEAD, config, pendingCfg, orphanCfg, act, shown,
                  chosen, local, trace, result >>
  /\ UNCHANGED chooser
  /\ UNCHANGED commitVars

\* lines 185-190: commit() hands its arguments to runCommitLikeCommand with no
\* options object; the call runs up to its first await (lines 211-240)
commit ==
  /\ pc \in {"commit", "commitAmend", "commitExtend", "commitReword"}
  /\ cpc[1] = "idle"
  /\ trace' = Append(trace, Ev("gitRun", commitCommandArgs(switches, pc)))
  /\ runCommitLikeCommandWith(1, NoOptions)
  /\ pc' = "runCommitLikeCommand"
  /\ UNCHANGED << remotes, refs, HEAD, config, pendingCfg, orphanCfg, act, menu,
                  switches, shown, chosen, local, result >>
  /\ UNCHANGED chooser

\* line 189: runCommitLikeCommand has ended and commit() ends the same way
commitReturns ==
  /\ pc = "runCommitLikeCommand"
  /\ cpc[1] = "ended"
  /\ pc' = "done"
  /\ result' = cresult[1]
  /\ UNCHANGED << remotes, refs, HEAD, config, pendingCfg, orphanCfg, act, menu,
                  switches, shown, chosen, local, trace >>
  /\ UNCHANGED chooser
  /\ UNCHANGED commitVars

\* the commit logs MagitUtils.chooseCommit may offer
CommitLogs == {<< >>, << "1a2b3c4" >>, << "1a2b3c4", "5d6e7f8" >>}

\* MagitUtils.chooseCommit offers the commits of the log
commitQuickItems(log) ==
  [i \in 1..Len(log) |-> [label |-> log[i], description |-> "", meta |-> log[i]]]

\* line 193: the commits are offered in a chooser
fixup ==
  /\ pc = "fixup"
  /\ chooser' = "open"
  /\ \E log \in CommitLogs : shown' = commitQuickItems(log)
  /\ pc' = "fixup_chooseCommit"
  /\ UNCHANGED << remotes, refs, HEAD, config, pendingCfg, orphanCfg, act, menu,
                  switches, chosen, local, trace, result >>
  /\ UNCHANGED commitVars

\* a slip in line 196: the commit in front of the --fixup flag
fixupArgsShaFirst(sw, sha) == << "commit" >> \o switchesToArgs(sw) \o << sha, "--fixup" >>

\* line 196
fixupArgs(sw, sha) == << "commit" >> \o switchesToArgs(sw) \o << "--fixup", sha >>

\* lines 193-201: the chooser resolves; with a commit the process is run, with
\* none the action throws
fixupChosen ==
  /\ pc = "fixup_chooseCommit"
  /\ \E c \in Choices(shown) :
       /\ chosen' = c
       /\ chooser' = IF c = Undefined THEN "dismissed" ELSE "picked"
       /\ IF Truthy(c)
          THEN GitRun(fixupArgs(switches, c))
          ELSE /\ trace' = Append(trace, Ev("throw", << "No commit chosen to fixup" >>))
               /\ pc' = "done"
               /\ result' = "raised"
  /\ UNCHANGED << remotes, refs, HEAD, config, pendingCfg, orphanCfg, act, menu,
                  switches, shown, local >>
  /\ UNCHANGED commitVars

\* line 193: the chooser rejects; nothing catches it
fixupChooserFails ==
  /\ pc = "fixup_chooseCommit"
  /\ chooser' = "rejected"
  /\ Raise
  /\ UNCHANGED << remotes, refs, HEAD, config, pendingCfg, orphanCfg, act, menu,
                  switches, shown, chosen, local >>
  /\ UNCHANGED commitVars

(***************************************************************************)
(* Initial states                                                          *)
(***************************************************************************)

Ref(n, rm, t) == [name |-> n, remote |-> rm, type |-> t, commit |-> "0a1b2c3d4e5f"]

\* the remotes a repository may have configured, in source order
RemoteLists == {<< >>, << "origin" >>, << "origin", "fork" >>, << "fork", "origin" >>}

\* a tracking entry of HEAD (pushRemote, upstream, upstreamRemote)
Tracks(branch, rs) ==
  {Absent} \cup {Some([name |-> branch, remote |-> rs[k]]) : k \in 1..Len(rs)}

\* HEAD: detached (no name, nothing tracked), or on main
HEADs(rs) ==
  {[name |-> Undefined, pushRemote |-> Absent, upstream |-> Absent,
    upstreamRemote |-> Absent]}
  \cup [name : {"main"}, pushRemote : Tracks("main", rs), upstream : Tracks("main", rs),
        upstreamRemote : Tracks("main", rs)]

\* the ref sets of the push / fetch sessions
SessionRefLists ==
  { << Ref("main", Undefined, RefTypeHead) >>,
    << Ref("main", Undefined, RefTypeHead), Ref("dev", Undefined, RefTypeHead),
       Ref("origin/main", "origin", RefTypeRemoteHead),
       Ref("v1.0.0", Undefined, RefTypeTag) >> }

\* the refs a repository may hold: local branches, remote heads and tags (a
\* local branch or a tag may be named like a remote head)
RefUniverse ==
  { Ref("main", Undefined, RefTypeHead), Ref("dev", Undefined, RefTypeHead),
    Ref("origin/main", Undefined, RefTypeHead),
    Ref("origin/main", "origin", RefTypeRemoteHead),
    Ref("fork/main", "fork", RefTypeRemoteHead),
    Ref("origin/dev", "origin", RefTypeRemoteHead),
    Ref("v1.0.0", Undefined, RefTypeTag), Ref("origin/main", Undefined, RefTypeTag),
    Ref("main", Undefined, RefTypeTag) }

\* the ref lists of at most n distinct refs
RECURSIVE RefLists(_)
RefLists(n) ==
  IF n = 0 THEN {<< >>}
  ELSE LET shorter == RefLists(n - 1)
       IN  shorter \cup
           {Append(l, r) : l \in {x \in shorter : Len(x) = n - 1},
                           r \in {y \in RefUniverse : TRUE}}

\* no ref is listed twice
distinctRefs(l) == \A a, b \in 1..Len(l) : a # b => l[a] # l[b]

\* no invocation of runCommitLikeCommand in the set `active` has started; the
\* others never start
CommitInit(active) ==
  /\ cpc = [i \in Invocations |-> IF i \in active THEN "idle" ELSE "off"]
  /\ opts = [i \in Invocations |-> NoOptions]
  /\ stagedTask = [i \in Invocations |-> "none"]
  /\ procTask = [i \in Invocations |-> "none"]
  /\ instruction = [i \in Invocations |-> "none"]
  /\ messages = [i \in Invocations |-> << >>]
  /\ toClose = [i \in Invocations |-> 0]
  /\ closes = [i \in Invocations |-> 0]
  /\ refreshes = [i \in Invocations |-> 0]
  /\ rethrow = [i \in Invocations |-> FALSE]
  /\ cresult = [i \in Invocations |-> "none"]
  /\ visible = 0
  /\ hidden = 0
  /\ procEnv = [i \in Invocations |-> Undefined]
  /\ refreshTask = [i \in Invocations |-> "none"]
  /\ steps = [i \in Invocations |-> << >>]

\* no menu session is in progress
SessionIdle ==
  /\ config = {}
  /\ pendingCfg = {}
  /\ orphanCfg = {}
  /\ pc = "idle"
  /\ act = ""
  /\ menu = NoMenu
  /\ switches = << >>
  /\ shown = << >>
  /\ chooser = "none"
  /\ chosen = Undefined
  /\ local = Undefined
  /\ trace = << >>
  /\ result = "none"

(***************************************************************************)
(* Spec: the push and fetch menus and their actions                        *)
(***************************************************************************)
Init ==
  /\ remotes \in RemoteLists
  /\ refs \in SessionRefLists
  /\ HEAD \in HEADs(remotes)
  /\ SessionIdle
  /\ CommitInit({})

Next ==
  \/ Pushing \/ Fetching \/ ToggleSwitch \/ MenuDismiss \/ MenuSelect \/ Finish
  \/ GitSettles \/ SetConfigSettles \/ OrphanSetConfigSettles
  \/ pushToPushRemote
  \/ pushSetPushRemote \/ pushSetPushRemoteChosen \/ pushSetPushRemoteChooserFails
  \/ pushSetPushRemoteCont
  \/ pushUpstream
  \/ pushSetUpstream \/ pushSetUpstreamChosen \/ pushSetUpstreamChooserFails
  \/ pushSetUpstreamCont
  \/ pushElsewhere \/ pushTag \/ pushTagChosen \/ pushAllTags
  \/ fetchFromPushRemote \/ fetchFromUpstream
  \/ fetchFromElsewhere \/ fetchFromElsewhereChosen \/ fetchFromElsewhereChooserFails
  \/ fetchAll \/ fetchAnotherBranch \/ fetchAnotherBranchBranch

Spec == Init /\ [][Next]_vars

(***************************************************************************)
(* SpecRefs: pushSetUpstream has been dispatched, over every ref list      *)
(***************************************************************************)
InitRefs ==
  /\ remotes \in RemoteLists
  /\ refs \in {l \in RefLists(MaxRefs) : distinctRefs(l)}
  /\ HEAD \in {[name |-> n, pushRemote |-> Absent, upstream |-> Absent,
                upstreamRemote |-> Absent] : n \in {Undefined, "main", "dev"}}
  /\ config = {}
  /\ pendingCfg = {}
  /\ orphanCfg = {}
  /\ pc = "pushSetUpstream"
  /\ act = "pushSetUpstream"
  /\ menu = generatePushingMenu(HEAD)
  /\ switches = pushSwitches
  /\ shown = << >>
  /\ chooser = "none"
  /\ chosen = Undefined
  /\ local = Undefined
  /\ trace = << >>
  /\ result = "none"
  /\ CommitInit({})

NextRefs ==
  \/ pushSetUpstream \/ pushSetUpstreamChosen \/ pushSetUpstreamChooserFails
  \/ SetConfigSettles \/ OrphanSetConfigSettles \/ pushSetUpstreamCont
  \/ pushUpstream \/ GitSettles \/ Finish

SpecRefs == InitRefs /\ [][NextRefs]_vars

(***************************************************************************)
(* SpecCommit: one invocation of runCommitLikeCommand and the user         *)
(***************************************************************************)
InitCommit ==
  /\ remotes = << >>
  /\ refs = << >>
  /\ HEAD \in HEADs(remotes)
  /\ SessionIdle
  /\ CommitInit({1})

NextCommit ==
  \/ \E i \in Invocations :
       \/ RunCommitLikeCommand(i)
       \/ PostCommitRefresh(i)
       \/ RefreshSettles(i)
       \/ ProcessSettles(i)
       \/ PreviewSettles(i)
       \/ AwaitProcess(i)
       \/ Finally(i)
       \/ CloseVisibleEditor(i)
  \/ UserHidesPreview
  \/ UserClosesPreview
  \/ UserSplitsPreview

SpecCommit == InitCommit /\ [][NextCommit]_vars


(***************************************************************************)
(* SpecCommitMenu: one session of the commit menu                          *)
(***************************************************************************)
InitCommitMenu ==
  /\ remotes = << >>
  /\ refs = << >>
  /\ HEAD \in HEADs(remotes)
  /\ SessionIdle
  /\ CommitInit({1})

NextCommitMenu ==
  \/ MagitCommit \/ ToggleSwitch \/ MenuDismiss \/ MenuSelect
  \/ commit \/ commitReturns
  \/ fixup \/ fixupChosen \/ fixupChooserFails \/ GitSettles
  \/ \E i \in Invocations :
       \/ ProcessSettles(i)
       \/ PreviewSettles(i)
       \/ AwaitProcess(i)
       \/ Finally(i)
       \/ CloseVisibleEditor(i)

SpecCommitMenu == InitCommitMenu /\ [][NextCommitMenu]_vars

(***************************************************************************)
(* SpecCommit2: two invocations of runCommitLikeCommand on one repository, *)
(* their steps interleaved; the user leaves the editors alone              *)
(***************************************************************************)
InitCommit2 ==
  /\ remotes = << >>
  /\ refs = << >>
  /\ HEAD \in HEADs(remotes)
  /\ SessionIdle
  /\ CommitInit({1, 2})

NextCommit2 ==
  \E i \in Invocations :
    \/ RunCommitLikeCommand(i)
    \/ PostCommitRefresh(i)
    \/ RefreshSettles(i)
    \/ ProcessSettles(i)
    \/ PreviewSettles(i)
    \/ AwaitProcess(i)
    \/ Finally(i)
    \/ CloseVisibleEditor(i)

SpecCommit2 == InitCommit2 /\ [][NextCommit2]_vars


(***************************************************************************)
(* Properties                                                              *)
(***************************************************************************)

Range(q) == {q[k] : k \in 1..Len(q)}

Labels(m) == [k \in 1..Len(m.commands) |-> m.commands[k].label]

\* tokens holds one long name per activated switch of sw, in declaration order
IsCompiled(tokens, sw) ==
  /\ Len(tokens) = Cardinality({k \in 1..Len(sw) : sw[k].activated})
  /\ \A k \in 1..Len(sw) :
       sw[k].activated =>
         tokens[Cardinality({j \in 1..k : sw[j].activated})] = sw[k].longName

\* args is [verb, <enabled switches in declaration order>, tail...]
IsCommand(args, verb, sw, tail) ==
  /\ Len(args) >= 1 + Len(tail)
  /\ args[1] = verb
  /\ IsCompiled(SubSeq(args, 2, Len(args) - Len(tail)), sw)
  /\ SubSeq(args, Len(args) - Len(tail) + 1, Len(args)) = tail

\* C1: a staged-changes preview that was opened is closed by the cleanup of
\* runCommitLikeCommand before the call ends, on every exit path: when the
\* call has ended no editor of the preview is left open, and the cleanup has
\* not closed it more than once.
C1_PreviewClosedExactlyOnce ==
  \A i \in Invocations :
    (cpc[i] = "ended" /\ stagedTask[i] = "opened") =>
      (closes[i] <= 1 /\ visible + hidden = 0)

\* C2: when the process task has failed, the call returns normally with the
\* "canceled" message shown if propagateErrors is not set, and raises if it
\* is set, whatever the other options and the preview-open task did.
C2_FailureSwallowedOrRaised ==
  \A i \in Invocations :
    (cpc[i] = "ended" /\ procTask[i] = "failed") =>
      IF Enabled(opts[i].propagateErrors)
      THEN cresult[i] = "raised"
      ELSE cresult[i] = "returned" /\ "Commit canceled." \in Range(messages[i])

\* C3: when pushSetPushRemote issues its retried push for chosen remote R on
\* branch B, branch.B.pushRemote = R has been persisted and then the in-memory
\* pushRemote set to {name: B, remote: R}, in that order and before the push,
\* and the push runs ['push', <enabled switches in declaration order>, R, B];
\* and a choice whose write succeeded does lead to that push.
C3_ConfigureThenPush ==
  /\ (act = "pushSetPushRemote" /\ pc = "gitRun") =>
       /\ Len(trace) = 3
       /\ trace[1] = Ev("setConfig", << "branch." \o HEAD.name \o ".pushRemote", chosen >>)
       /\ trace[2] = Ev("setHEAD", << "pushRemote", HEAD.name, chosen >>)
       /\ trace[3].op = "gitRun"
       /\ IsCommand(trace[3].args, "push", switches, << chosen, HEAD.name >>)
       /\ << "branch." \o HEAD.name \o ".pushRemote", chosen >> \in config
       /\ HEAD.pushRemote = << [name |-> HEAD.name, remote |-> chosen] >>
       /\ chosen \in Range(remotes)
  /\ (act = "pushSetPushRemote" /\ pc = "done" /\ result = "returned"
        /\ chooser = "picked" /\ HEAD.name # Undefined) =>
       (Len(trace) = 3 /\ trace[3].op = "gitRun")

\* C3 witness: the retried push has been issued with a switch enabled
C3_Witness ==
  /\ act = "pushSetPushRemote"
  /\ pc = "gitRun"
  /\ \E k \in 1..Len(switches) : switches[k].activated
  /\ trace[3].args = << "push", "--force", "origin", "main" >>

\* the action the fetch menu documents for a label
FetchActionOf(l) ==
  CASE l = "p" -> "fetchFromPushRemote"
    [] l = "u" -> "fetchFromUpstream"
    [] l = "e" -> "fetchFromElsewhere"
    [] l = "a" -> "fetchAll"
    [] l = "o" -> "fetchAnotherBranch"
    [] OTHER -> "none"

\* the place of a label in the fetch menu
FetchRank(l) ==
  CASE l = "p" -> 1 [] l = "u" -> 2 [] l = "e" -> 3 [] l = "a" -> 4 [] l = "o" -> 5
    [] OTHER -> 0

\* C4: the fetch menu offers p iff HEAD has a push-remote, u iff HEAD has an
\* upstream, and always e, a, o; the labels are in the order p, u, e, a, o,
\* unique, and each bound to its own action; with an upstream and no
\* push-remote the labels are exactly u, e, a, o.
C4_FetchMenu ==
  menu.title = "Fetching" =>
    LET L == Labels(menu)
    IN  /\ ("p" \in Range(L)) <=> (HEAD.pushRemote # << >>)
        /\ ("u" \in Range(L)) <=> (HEAD.upstream # << >>)
        /\ {"e", "a", "o"} \subseteq Range(L)
        /\ Range(L) \subseteq {"p", "u", "e", "a", "o"}
        /\ \A a, b \in 1..Len(L) : a < b => FetchRank(L[a]) < FetchRank(L[b])
        /\ \A k \in 1..Len(L) : menu.commands[k].action = FetchActionOf(L[k])
        /\ (HEAD.upstream # << >> /\ HEAD.pushRemote = << >>) => L = << "u", "e", "a", "o" >>

\* C4 witness: the fetch menu is shown with an upstream and no push-remote
C4_Witness ==
  /\ pc = "menu"
  /\ menu.title = "Fetching"
  /\ HEAD.upstream # << >>
  /\ HEAD.pushRemote = << >>
  /\ HEAD.upstreamRemote = << >>

\* the remote a tag push goes to: the upstream remote, else the push-remote
TagDestination ==
  IF HEAD.upstreamRemote # << >> THEN HEAD.upstreamRemote[1].remote
  ELSE IF HEAD.pushRemote # << >> THEN HEAD.pushRemote[1].remote
  ELSE Undefined

\* C5: pushTag and pushAllTags push to the upstream remote when one is
\* configured and to the push-remote otherwise; with neither they run no
\* process and change nothing; pushTag with push-remote R only and chosen tag
\* T runs ['push', <enabled switches>, R, T].
C5_TagPushRemote ==
  /\ (act \in {"pushTag", "pushAllTags"} /\ TagDestination = Undefined) =>
       (trace = << >> /\ pendingCfg = {} /\ pc # "gitRun")
  /\ (act = "pushTag" /\ pc \in {"gitRun", "done"} /\ TagDestination # Undefined
        /\ chooser = "picked") =>
       /\ Len(trace) = 1
       /\ trace[1].op = "gitRun"
       /\ IsCommand(trace[1].args, "push", switches, << TagDestination, chosen >>)
  /\ (act = "pushTag" /\ chooser = "dismissed") => trace = << >>
  /\ (act = "pushAllTags" /\ pc \in {"gitRun", "done"} /\ TagDestination # Undefined) =>
       /\ Len(trace) = 1
       /\ trace[1].op = "gitRun"
       /\ IsCommand(trace[1].args, "push", switches, << TagDestination, "--tags" >>)

\* C5 witness: a tag is pushed with the upstream remote unset and a push-remote
C5_Witness ==
  /\ act = "pushTag"
  /\ pc = "gitRun"
  /\ HEAD.upstreamRemote = << >>
  /\ HEAD.pushRemote # << >>
  /\ trace = << Ev("gitRun", << "push", "origin", "v1.0.0" >>) >>

\* the list of upstream candidates is being shown
UpstreamListShown == act = "pushSetUpstream" /\ pc = "pushSetUpstream_showMenu"

\* how often a name occurs in a list of records with the field name / label
CountName(q, n) == Cardinality({k \in 1..Len(q) : q[k].name = n})
CountLabel(q, n) == Cardinality({k \in 1..Len(q) : q[k].label = n})

\* <first remote>/<current branch>
ExpectedName == remotes[1] \o "/" \o (IF HEAD.name = Undefined THEN "undefined" ELSE HEAD.name)

\* C6: with first remote R and current branch B, when no ref is named R/B the
\* first element of the list shown is the synthesized candidate R/B; when a
\* ref is named R/B nothing is synthesized, and R/B is in the list no more
\* often than in the ref set.
C6_SynthesizedFirst ==
  (UpstreamListShown /\ Len(remotes) > 0) =>
    IF CountName(refs, ExpectedName) = 0
    THEN /\ Len(shown) > 0
         /\ shown[1].label = ExpectedName
         /\ shown[1].meta = ExpectedName
         /\ shown[1].description = Undefined
         /\ CountLabel(shown, ExpectedName) = 1
    ELSE /\ CountLabel(shown, ExpectedName) <= CountName(refs, ExpectedName)
         /\ \A k \in 1..Len(shown) : shown[k].description # Undefined

\* C6 witness: the candidate is synthesized although other remote heads exist
C6_Witness ==
  /\ UpstreamListShown
  /\ Len(remotes) > 0
  /\ CountName(refs, ExpectedName) = 0
  /\ Len(shown) = 3
  /\ \A k \in 1..Len(refs) : refs[k].type = RefTypeRemoteHead

\* C7: the candidate list holds no candidate named like the current branch
\* and no tag, and keeps every other ref of the ref set.
C7_FilteredCandidates ==
  UpstreamListShown =>
    LET cands == upstreamCandidates(refs, remotes, HEAD.name)
    IN  /\ Len(shown) = Len(cands)
        /\ \A k \in 1..Len(cands) :
             /\ shown[k].label = cands[k].name
             /\ cands[k].type # RefTypeTag
             /\ cands[k].name # HEAD.name
             /\ shown[k].label # HEAD.name
        /\ \A k \in 1..Len(refs) :
             (refs[k].type # RefTypeTag /\ refs[k].name # HEAD.name) =>
               /\ refs[k] \in Range(cands)
               /\ refs[k].name \in {shown[j].label : j \in 1..Len(shown)}
        /\ \A k \in 1..Len(refs) :
             (refs[k].type = RefTypeTag
                /\ CountName(refs, refs[k].name) = 1
                /\ (Len(remotes) = 0 \/ refs[k].name # ExpectedName)) =>
               refs[k].name \notin {shown[j].label : j \in 1..Len(shown)}

\* C7 witness: a tag and the current branch are dropped, the synthesized
\* candidate is all that is shown
C7_Witness ==
  /\ UpstreamListShown
  /\ HEAD.name = "main"
  /\ refs = << Ref("main", Undefined, RefTypeHead), Ref("v1.0.0", Undefined, RefTypeTag) >>
  /\ remotes = << "origin" >>
  /\ Labels([commands |-> shown]) = << "origin/main" >>

\* C8: with at least one remote configured the candidate list shown by
\* pushSetUpstream is never empty.
C8_CandidatesNonEmpty ==
  (UpstreamListShown /\ Len(remotes) > 0) => Len(shown) > 0

\* the chooser of one of the three actions has just been dismissed
DismissingChooser ==
  /\ pc \in {"pushSetPushRemote_showMenu", "pushSetUpstream_showMenu",
             "fetchFromElsewhere_showMenu"}
  /\ chooser' = "dismissed"

\* C9: dismissing the chooser of pushSetPushRemote, pushSetUpstream or
\* fetchFromElsewhere ends the action without error and without side
\* effects: no configuration write, HEAD unchanged, no process run.
C9_DismissIsNoOp ==
  /\ [] ((act \in {"pushSetPushRemote", "pushSetUpstream", "fetchFromElsewhere"}
            /\ chooser = "dismissed") =>
           (pc = "done" /\ result = "returned" /\ trace = << >> /\ pendingCfg = {}))
  /\ [][DismissingChooser =>
          /\ HEAD' = HEAD
          /\ config' = config
          /\ pendingCfg' = pendingCfg
          /\ orphanCfg' = orphanCfg
          /\ trace = << >>
          /\ trace' = << >>
          /\ result' = "returned"
          /\ pc' = "done"]_vars

\* C9 witness: the chooser of pushSetPushRemote was dismissed on a branch
\* with remotes to choose from
C9_Witness ==
  /\ act = "pushSetPushRemote"
  /\ chooser = "dismissed"
  /\ Len(shown) = 2
  /\ HEAD.name = "main"

\* C10: an invocation whose caller did not set showStagedChanges opens the
\* staged-changes preview.
C10_PreviewOpenedByDefault ==
  \A i \in Invocations :
    (cpc[i] \notin {"off", "idle"} /\ opts[i].showStagedChanges = "unset") =>
      stagedTask[i] # "none"


\* C11: in fixup, when the commit chooser yields no commit the action throws
\* "No commit chosen to fixup" to its caller and runs no process; when commit
\* S is chosen the process is run exactly once, with
\* ['commit', <enabled switches in declaration order>, '--fixup', S].
C11_FixupTarget ==
  /\ (act = "fixup" /\ chooser = "dismissed") =>
       /\ pc = "done"
       /\ result = "raised"
       /\ trace = << Ev("throw", << "No commit chosen to fixup" >>) >>
  /\ (act = "fixup" /\ chooser = "rejected") =>
       (pc = "done" /\ result = "raised" /\ trace = << >>)
  /\ (act = "fixup" /\ chooser = "picked") =>
       /\ pc \in {"gitRun", "done"}
       /\ Len(trace) = 1
       /\ trace[1].op = "gitRun"
       /\ IsCommand(trace[1].args, "commit", switches, << "--fixup", chosen >>)
       /\ chosen \in {shown[k].meta : k \in 1..Len(shown)}
  /\ (act = "fixup" /\ chooser \in {"none", "open"}) => trace = << >>

\* C11 witness: the chooser offered two commits and was dismissed, with a
\* switch enabled
C11_Witness ==
  /\ act = "fixup"
  /\ chooser = "dismissed"
  /\ Len(shown) = 2
  /\ switches[1].activated
  /\ result = "raised"

\* C12: no step of the preview cleanup (locating the visible editors, closing
\* one) starts before the preview-open task has settled, also when the
\* process task settles first: the cleanup has started or the call has ended
\* only with the preview-open task settled, and editors are located and
\* closed only for a preview that was opened.
C12_CleanupAwaitsPreview ==
  \A i \in Invocations :
    /\ cpc[i] \in {"closing", "ended"} => stagedTask[i] # "pending"
    /\ (toClose[i] > 0 \/ closes[i] > 0
          \/ "locate" \in Range(steps[i]) \/ "close" \in Range(steps[i])) =>
         stagedTask[i] = "opened"

\* C12 witness: the process has failed and the call is in its finally block
\* while the preview is still opening; nothing has been located or closed
C12_Witness ==
  \E i \in Invocations :
    /\ cpc[i] = "finally"
    /\ procTask[i] = "failed"
    /\ stagedTask[i] = "pending"
    /\ closes[i] = 0
    /\ "locate" \notin Range(steps[i])

\* C13: every invocation shows at most one outcome message, none before the
\* process task has settled and exactly one once the await of the process
\* task is over: "Git finished" iff the process succeeded, "Commit canceled."
\* iff it failed.
C13_OneOutcomeMessage ==
  \A i \in Invocations :
    /\ Len(messages[i]) <= 1
    /\ messages[i] # << >> =>
         /\ procTask[i] \in {"ok", "failed"}
         /\ (messages[i][1] = "Git finished") <=> (procTask[i] = "ok")
         /\ (messages[i][1] = "Commit canceled.") <=> (procTask[i] = "failed")
    /\ cpc[i] \in {"finally", "closing", "ended"} => Len(messages[i]) = 1
    /\ cpc[i] \in {"idle", "delay", "awaitProcess"} => messages[i] = << >>

\* C13 witness: the process succeeded and the call has ended, raising the
\* rejection of the preview-open task; the completion message is the one shown
C13_Witness ==
  \E i \in Invocations :
    /\ cpc[i] = "ended"
    /\ procTask[i] = "ok"
    /\ stagedTask[i] = "rejected"
    /\ messages[i] = << "Git finished" >>

\* C14: the instruction is the first thing an invocation does, before the
\* preview-open task and the process task are started; it is disposed
\* directly before the outcome message is shown, on every exit path, and is
\* not displayed when the call has ended.
C14_InstructionLifetime ==
  \A i \in Invocations :
    /\ steps[i] # << >> => steps[i][1] = "instruction"
    /\ (stagedTask[i] # "none" \/ procTask[i] # "none") => instruction[i] # "none"
    /\ \A k \in 1..Len(steps[i]) :
         steps[i][k] = "message" => (k > 1 /\ steps[i][k - 1] = "dispose")
    /\ messages[i] # << >> => instruction[i] = "disposed"
    /\ cpc[i] \in {"finally", "closing", "ended"} => instruction[i] = "disposed"

\* C14 witness: the process failed, the failure was re-raised and the call
\* has ended with the instruction disposed
C14_Witness ==
  \E i \in Invocations :
    /\ cpc[i] = "ended"
    /\ procTask[i] = "failed"
    /\ rethrow[i]
    /\ cresult[i] = "raised"
    /\ stagedTask[i] = "opened"
    /\ instruction[i] = "disposed"

\* C15: with updatePostCommitTask set the refresh is triggered exactly once,
\* after the delay, and never otherwise; a refresh that failed leaves the
\* call awaiting the process task, and the outcome message and the way the
\* call ends are what the process task and the other tasks alone determine.
C15_RefreshBestEffort ==
  \A i \in Invocations :
    /\ refreshes[i] <= 1
    /\ Cardinality({k \in 1..Len(steps[i]) : steps[i][k] = "refresh"}) = refreshes[i]
    /\ cpc[i] \in {"off", "idle", "delay"} => refreshes[i] = 0
    /\ cpc[i] \in {"awaitProcess", "finally", "closing", "ended"} =>
         (refreshes[i] = 1) <=> (opts[i].updatePostCommitTask = "true")
    /\ refreshTask[i] = "failed" =>
         /\ procTask[i] = "pending" => (cpc[i] = "awaitProcess" /\ messages[i] = << >>)
         /\ messages[i] # << >> =>
              messages[i] = << IF procTask[i] = "ok" THEN "Git finished"
                               ELSE "Commit canceled." >>
         /\ cpc[i] = "ended" =>
              cresult[i] = IF stagedTask[i] = "rejected" THEN "raised"
                           ELSE IF procTask[i] = "failed" /\ opts[i].propagateErrors = "true"
                                THEN "raised" ELSE "returned"

\* C15 witness: the refresh failed, the process succeeded afterwards and the
\* call has returned with the completion message
C15_Witness ==
  \E i \in Invocations :
    /\ refreshTask[i] = "failed"
    /\ cpc[i] = "ended"
    /\ procTask[i] = "ok"
    /\ cresult[i] = "returned"
    /\ messages[i] = << "Git finished" >>

\* the running action is one of the two configure-then-retry actions
ConfigureThenRetry == act \in {"pushSetPushRemote", "pushSetUpstream"}

\* the operations the running action has performed, in order
Ops == [k \in 1..Len(trace) |-> trace[k].op]

\* the configuration writes the running action has to complete
WritesNeeded == IF act = "pushSetPushRemote" THEN 1 ELSE 2

\* C16: in pushSetPushRemote and pushSetUpstream the in-memory HEAD is changed
\* only when every setConfig call of the action has succeeded; when a
\* setConfig call fails HEAD is left as it was, no push is issued and the
\* action ends by raising the failure.
C16_WriteBeforeMutation ==
  /\ [] ((ConfigureThenRetry /\ "setConfigFailed" \in Range(Ops)) =>
           /\ pc = "done"
           /\ result = "raised"
           /\ "setHEAD" \notin Range(Ops)
           /\ "gitRun" \notin Range(Ops))
  /\ [] ((ConfigureThenRetry /\ "setHEAD" \in Range(Ops)) =>
           /\ Len(trace) >= WritesNeeded + 1
           /\ \A k \in 1..WritesNeeded : trace[k].op = "setConfig"
           /\ trace[WritesNeeded + 1].op = "setHEAD")
  /\ [][HEAD' # HEAD =>
          /\ ConfigureThenRetry
          /\ pendingCfg = {}
          /\ Ops = [k \in 1..WritesNeeded |-> "setConfig"]]_vars
  /\ [][(ConfigureThenRetry /\ "setConfigFailed" \in Range(Ops)) => HEAD' = HEAD]_vars

\* C16 witness: the write of pushSetPushRemote failed; the action has raised
\* and HEAD has no push-remote
C16_Witness ==
  /\ act = "pushSetPushRemote"
  /\ pc = "done"
  /\ result = "raised"
  /\ trace = << Ev("setConfigFailed", << "branch.main.pushRemote", "origin" >>) >>
  /\ HEAD.pushRemote = << >>
  /\ config = {}

\* the configuration store holds a value for the key
Persisted(key) == \E p \in config : p[1] = key

\* C17: when pushSetUpstream has ended on branch B, branch.B.merge and
\* branch.B.remote have both been persisted or neither has, also when one of
\* the two setConfig calls failed; and the retried push is issued only with
\* both persisted.
C17_BothKeysOrNeither ==
  (act = "pushSetUpstream" /\ HEAD.name # Undefined) =>
    /\ pc = "done" =>
         (Persisted("branch." \o HEAD.name \o ".merge")
            <=> Persisted("branch." \o HEAD.name \o ".remote"))
    /\ "gitRun" \in Range(Ops) =>
         /\ Persisted("branch." \o HEAD.name \o ".merge")
         /\ Persisted("branch." \o HEAD.name \o ".remote")

\* C18: with two invocations interleaved, an invocation closes no editor but
\* the one preview it opened, the preview of an invocation stays displayed
\* until that invocation's own cleanup, and no preview is left when both
\* have ended.
C18_OwnPreviewOnly ==
  /\ \A i \in Invocations :
       /\ closes[i] <= (IF stagedTask[i] = "opened" THEN 1 ELSE 0)
       /\ (stagedTask[i] = "opened" /\ cpc[i] \in {"delay", "awaitProcess", "finally"}) =>
            visible >= 1
  /\ (\A i \in Invocations : cpc[i] = "ended") => visible + hidden = 0

\* C19: the direct upstream action offered under 'u' (HEAD has an upstream)
\* runs the process with the upstream's remote: ['fetch', <switches>, remote]
\* from the fetch menu, ['push', <switches>, remote, <branch>] from the push
\* menu; it never ends without having run it.
C19_OfferedUpstreamActs ==
  /\ (act = "fetchFromUpstream" /\ pc \in {"gitRun", "done"}) =>
       /\ HEAD.upstream # << >>
       /\ Len(trace) = 1
       /\ trace[1].op = "gitRun"
       /\ IsCommand(trace[1].args, "fetch", switches, << HEAD.upstream[1].remote >>)
  /\ (act = "pushUpstream" /\ pc \in {"gitRun", "done"}) =>
       /\ HEAD.upstream # << >>
       /\ Len(trace) = 1
       /\ trace[1].op = "gitRun"
       /\ IsCommand(trace[1].args, "push", switches,
                    << HEAD.upstream[1].remote, HEAD.name >>)

\* the action a push menu generated from HEAD binds to a label
PushActionOf(l) ==
  LET m == generatePushingMenu(HEAD)
  IN  {m.commands[k].action : k \in {j \in 1..Len(m.commands) : m.commands[j].label = l}}

\* the configure-then-retry action has configured, pushed and returned
RetrySucceeded ==
  /\ pc = "done"
  /\ result = "returned"
  /\ "setHEAD" \in Range(Ops)
  /\ "gitRun" \in Range(Ops)

\* C20: once pushSetPushRemote (pushSetUpstream) has completed successfully, a
\* push menu generated from the in-memory state as it is binds 'p' ('u') to
\* the direct push action and no longer to the "after setting that" action.
C20_DirectActionAfterConfigure ==
  /\ (act = "pushSetPushRemote" /\ RetrySucceeded) => PushActionOf("p") = {"pushToPushRemote"}
  /\ (act = "pushSetUpstream" /\ RetrySucceeded) => PushActionOf("u") = {"pushUpstream"}

====
